---------------------------- MODULE Spec2Model ----------------------------
(***************************************************************************)
(* Model of pdffiller::PdfDocument (src/native/src/pdf-filler.cpp): the    *)
(* document session, the field-tree flattener with its name index, and the *)
(* type-dispatched setters.                                                *)
(*                                                                         *)
(* Strings are sequences of bytes (0..255).  A GooString pointer is either *)
(* nullptr or a byte sequence in PDF text-string form (PDFDocEncoding, or  *)
(* UTF-16BE behind the byte order mark FE FF); a std::string is a UTF-8    *)
(* byte sequence.  A FormField pointer is [node, live]: the node's index in *)
(* the field tree of the PDFDoc it was taken from, and whether that PDFDoc *)
(* still exists.  Destroying a PDFDoc leaves every pointer into it         *)
(* dangling; using a dangling pointer is undefined behaviour.              *)
(***************************************************************************)
EXTENDS Integers, Sequences, FiniteSets, TLC

\* ------------------------------------------------------------------ bounds
\* longest batch handed to setFieldValues
MaxBatch == 2

\* ----------------------------------------------------------------- strings
\* a null GooString pointer (distinct from the empty string)
nullptr == <<-1>>
\* a null const char pointer
NullCStr == "<nullptr>"

\* UTF-8 std::string literals
S_empty == <<>>
S_0 == <<48>>
S_false == <<102, 97, 108, 115, 101>>
S_eacute == <<195, 169>>
S_a == <<97>>
S_b == <<98>>
S_ab == <<97, 46, 98>>
S_k == <<107>>
S_r == <<114>>
S_p == <<112>>
S_t == <<116>>
S_tdot == <<116, 46>>
S_g == <<103>>
S_zz == <<122, 122>>
S_aba == <<97, 46, 98, 46, 97>>
S_abk == <<97, 46, 98, 46, 107>>
S_ak == <<97, 46, 107>>

\* the byte order mark of a UTF-16BE PDF text string
unicodeByteOrderMark == <<254, 255>>

hasUnicodeByteOrderMark(s) ==
    /\ Len(s) >= 2
    /\ s[1] = 254
    /\ s[2] = 255

\* UTF-8 encoding of one code point below 0x10000
Utf8Encode(cp) ==
    IF cp < 128 THEN <<cp>>
    ELSE IF cp < 2048 THEN <<192 + (cp \div 64), 128 + (cp % 64)>>
    ELSE <<224 + (cp \div 4096), 128 + ((cp \div 64) % 64), 128 + (cp % 64)>>

\* UTF-16BE code units of a byte string, from byte position i on
RECURSIVE Utf16Units(_, _)
Utf16Units(s, i) ==
    IF i + 1 > Len(s) THEN <<>>
    ELSE <<s[i] * 256 + s[i + 1]>> \o Utf16Units(s, i + 2)

RECURSIVE utf16ToUtf8(_)
utf16ToUtf8(units) ==
    IF units = <<>> THEN <<>>
    ELSE Utf8Encode(Head(units)) \o utf16ToUtf8(Tail(units))

\* PDFDocEncoding is the identity on the ASCII range, the only bytes the
\* documents below carry outside UTF-16 strings; a byte above it decodes to
\* the code point of the same number (the Latin-1 block of the table)
RECURSIVE pdfDocToUtf8(_)
pdfDocToUtf8(s) ==
    IF s = <<>> THEN <<>>
    ELSE Utf8Encode(Head(s)) \o pdfDocToUtf8(Tail(s))

\* poppler TextStringToUtf8: PDF text string -> UTF-8
TextStringToUtf8(s) ==
    IF hasUnicodeByteOrderMark(s) THEN utf16ToUtf8(Utf16Units(s, 3))
    ELSE pdfDocToUtf8(s)

gooToStd(gs) ==
    IF gs = nullptr THEN <<>> ELSE TextStringToUtf8(gs)

\* code points of a UTF-8 byte string; a malformed sequence decodes to U+FFFD
RECURSIVE Utf8Decode(_)
Utf8Decode(s) ==
    IF s = <<>> THEN <<>>
    ELSE IF s[1] < 128 THEN <<s[1]>> \o Utf8Decode(Tail(s))
    ELSE IF s[1] >= 192 /\ s[1] < 224 /\ Len(s) >= 2 /\ s[2] >= 128 /\ s[2] < 192
         THEN <<(s[1] - 192) * 64 + (s[2] - 128)>> \o Utf8Decode(Tail(Tail(s)))
    ELSE <<65533>> \o Utf8Decode(Tail(s))

RECURSIVE Utf16Bytes(_)
Utf16Bytes(cps) ==
    IF cps = <<>> THEN <<>>
    ELSE <<Head(cps) \div 256, Head(cps) % 256>> \o Utf16Bytes(Tail(cps))

\* poppler utf8ToUtf16WithBom: UTF-8 -> UTF-16BE behind the byte order mark;
\* the empty string stays empty
utf8ToUtf16WithBom(utf8) ==
    IF utf8 = <<>> THEN <<>>
    ELSE unicodeByteOrderMark \o Utf16Bytes(Utf8Decode(utf8))

\* GooString(s.c_str(), s.length()): the bytes unchanged
stdToGoo(s) == s


\* --------------------------------------------------------------- documents
\* What the parser (poppler PDFDoc, Catalog, Form) yields for each input
\* buffer.  A field node carries what the FormField accessors return:
\* getType, getFullyQualifiedName, getPartialName, isReadOnly, the widgets,
\* the children (0 is a null child), and the kind-specific value: text
\* content, choice labels and selected indices (0-based), button subtype,
\* appearance state and the NoToggleToOff flag.
FormFieldTypes == {"formButton", "formText", "formChoice", "formSignature", "formUndef"}
FormButtonTypes == {"formButtonCheck", "formButtonPush", "formButtonRadio"}

Widget(page, onStr) ==
    [rect |-> <<10, 20, 110, 40>>, pageNum |-> page, onStr |-> onStr, type |-> "formButton"]

BaseNode ==
    [type |-> "formUndef", fullName |-> nullptr, partialName |-> nullptr,
     readOnly |-> FALSE, required |-> FALSE, widgets |-> <<>>, children |-> <<>>,
     content |-> nullptr, choices |-> <<>>, selected |-> {},
     btnType |-> "formButtonPush", appearanceState |-> NullCStr, noAllOff |-> FALSE]

TextNode(full, partial, content, page) ==
    [BaseNode EXCEPT !.type = "formText", !.fullName = full, !.partialName = partial,
                     !.content = content, !.widgets = <<Widget(page, NullCStr)>>]

ButtonNode(full, btnType, onStr, state, noAllOff) ==
    [BaseNode EXCEPT !.type = "formButton", !.fullName = full, !.partialName = full,
                     !.btnType = btnType, !.appearanceState = state, !.noAllOff = noAllOff,
                     !.widgets = <<Widget(1, onStr)>>]

\* "A": root text field "b"; container "a" with a text child "a.b" (names in
\* UTF-16BE, partial name "b") and a null child
DocA ==
    [err |-> 0, password |-> "", numPages |-> 2, hasForm |-> TRUE, roots |-> <<1, 2>>,
     nodes |-> <<
        TextNode(S_b, S_b, nullptr, 1),
        [BaseNode EXCEPT !.fullName = S_a, !.partialName = S_a, !.children = <<3, 0>>],
        TextNode(unicodeByteOrderMark \o <<0, 97, 0, 46, 0, 98>>, unicodeByteOrderMark \o <<0, 98>>,
                 nullptr, 2)
     >>]

\* "B": check box "k" (on-state "On"), radio "r" (no on-state label, may not
\* be toggled off), push button "p", a null root, a container "g" whose
\* child is a signature field without partial name (its fully qualified name
\* is "g"), and a container "t" whose child is a required read-only choice
\* field with a present, zero-length partial name (fully qualified name
\* "t."), two widgets and the labels "0", e-acute in UTF-16BE, a null label
\* and "0" again
DocB ==
    [err |-> 0, password |-> "", numPages |-> 1, hasForm |-> TRUE,
     roots |-> <<1, 2, 3, 0, 4, 6>>,
     nodes |-> <<
        ButtonNode(S_k, "formButtonCheck", "On", "Off", FALSE),
        ButtonNode(S_r, "formButtonRadio", NullCStr, "Off", TRUE),
        ButtonNode(S_p, "formButtonPush", NullCStr, NullCStr, FALSE),
        [BaseNode EXCEPT !.fullName = S_g, !.partialName = S_g, !.children = <<5>>],
        [BaseNode EXCEPT !.type = "formSignature", !.fullName = S_g,
                         !.widgets = <<Widget(1, NullCStr)>>],
        [BaseNode EXCEPT !.fullName = S_t, !.partialName = S_t, !.children = <<7>>],
        [BaseNode EXCEPT !.type = "formChoice", !.fullName = S_tdot, !.partialName = S_empty,
                         !.readOnly = TRUE, !.required = TRUE,
                         !.choices = <<S_0, unicodeByteOrderMark \o <<0, 233>>, nullptr, S_0>>,
                         !.widgets = <<Widget(1, NullCStr), Widget(1, NullCStr)>>]
     >>]

\* "C": an encrypted document (password "pw") without a form
DocC ==
    [err |-> 0, password |-> "pw", numPages |-> 2, hasForm |-> FALSE, roots |-> <<>>,
     nodes |-> <<>>]

\* "K": a document whose field dictionaries refer to each other in a cycle:
\* the Kids of root "a" name "a.b", and the Kids of "a.b" name the object of
\* "a" again and a text field "a.b.k".  The parser builds each field from its
\* Kids and does not follow a reference to an object already on the path it
\* came by, so the second field built for the object of "a" has no
\* children: what getNumChildren and getChildren expose is a finite tree
DocK ==
    [err |-> 0, password |-> "", numPages |-> 1, hasForm |-> TRUE, roots |-> <<1>>,
     nodes |-> <<
        [BaseNode EXCEPT !.fullName = S_a, !.partialName = S_a, !.children = <<2>>],
        [BaseNode EXCEPT !.fullName = S_ab, !.partialName = S_b, !.children = <<3, 4>>],
        [BaseNode EXCEPT !.fullName = S_aba, !.partialName = S_a],
        TextNode(S_abk, S_k, nullptr, 1)
     >>]

\* "P": a text field "a" that has a widget of its own and two children, a
\* container "a.b" (no widget) with the text child "a.b.k", and a check box
\* "a.k"; then a second root, the text field "b"
DocP ==
    [err |-> 0, password |-> "", numPages |-> 1, hasForm |-> TRUE, roots |-> <<1, 5>>,
     nodes |-> <<
        [TextNode(S_a, S_a, nullptr, 1) EXCEPT !.children = <<2, 3>>],
        [BaseNode EXCEPT !.fullName = S_ab, !.partialName = S_b, !.children = <<4>>],
        ButtonNode(S_ak, "formButtonCheck", "On", "Off", FALSE),
        TextNode(S_abk, S_k, nullptr, 1),
        TextNode(S_b, S_b, nullptr, 1)
     >>]

\* anything else is not a PDF (poppler errDamaged)
DocX ==
    [err |-> 3, password |-> "", numPages |-> 0, hasForm |-> FALSE, roots |-> <<>>, nodes |-> <<>>]

Buffers == {"A", "B", "C", "X"}

Parsed(bytes) ==
    CASE bytes = "A" -> DocA
      [] bytes = "B" -> DocB
      [] bytes = "C" -> DocC
      [] bytes = "K" -> DocK
      [] bytes = "P" -> DocP
      [] OTHER -> DocX

\* PDFDoc::isOk / getErrorCode after construction from a buffer and a
\* password: 0 (errNone), 3 (errDamaged) or 4 (errEncrypted)
ErrorCode(bytes, password) ==
    IF Parsed(bytes).err # 0 THEN Parsed(bytes).err
    ELSE IF Parsed(bytes).password # "" /\ password # Parsed(bytes).password THEN 4
    ELSE 0

\* the virtual file system: path -> buffer, "" where no file exists
Paths == {"/a.pdf", "/x.pdf", "/missing.pdf"}
FileAt(path) ==
    CASE path = "/a.pdf" -> "A"
      [] path = "/x.pdf" -> "X"
      [] OTHER -> ""

\* ------------------------------------------------------------------ memory
\* doc_: the owned PDFDoc, or NoDoc for a null unique_ptr.  st is the mutable
\* part of every field node: text content, selected choice indices,
\* appearance state.
NoDoc == [file |-> "", st |-> <<>>]

NewDoc(bytes) ==
    [file |-> bytes,
     st |-> [n \in 1..Len(Parsed(bytes).nodes) |->
                [content |-> Parsed(bytes).nodes[n].content,
                 selected |-> Parsed(bytes).nodes[n].selected,
                 appearanceState |-> Parsed(bytes).nodes[n].appearanceState]]]

NullField == [node |-> 0, live |-> FALSE]

\* a FormField pointer may be dereferenced only while its PDFDoc is alive
Live(D, p) == D # NoDoc /\ p.live

\* the pointers of an index after the PDFDoc they point into is destroyed
Freed(m) == [k \in DOMAIN m |-> [m[k] EXCEPT !.live = FALSE]]

Node(D, n) == Parsed(D.file).nodes[n]

\* std::unordered_map<std::string, FormField*>
EmptyMap == [k \in {} |-> NullField]
MapPut(m, k, p) == [x \in (DOMAIN m) \cup {k} |-> IF x = k THEN p ELSE m[x]]
MapFind(m, k) == IF k \in DOMAIN m THEN m[k] ELSE NullField

\* --------------------------------------------------------------- flattener
FieldTypes == {"Unknown", "Text", "Button", "Checkbox", "Radio", "Choice", "Signature"}

\* a default-constructed PdfFormField; node is not a member of the struct: it
\* records the index of the FormField the record was built from
DefaultField ==
    [name |-> <<>>, fullName |-> <<>>, value |-> <<>>, defaultValue |-> <<>>,
     type |-> "Unknown", readOnly |-> FALSE, required |-> FALSE, pageIndex |-> 0,
     x |-> 0, y |-> 0, width |-> 0, height |-> 0,
     options |-> <<>>, exportValue |-> <<>>, isChecked |-> FALSE,
     node |-> 0]

convertFieldType(type) ==
    CASE type = "formText" -> "Text"
      [] type = "formButton" -> "Button"
      [] type = "formChoice" -> "Choice"
      [] type = "formSignature" -> "Signature"
      [] OTHER -> "Unknown"

\* FormFieldButton::getState(const char *state): the appearance state is the
\* name state.  The flattener passes the literal 0, a null pointer: the
\* comparison then reads the string at address 0, which in the WebAssembly
\* build is the empty string, so a call that returns returns false.
getState(st, state) ==
    /\ st.appearanceState # NullCStr
    /\ state # NullCStr
    /\ st.appearanceState = state

\* FormFieldChoice::getNumSelected
getNumSelected(st) == Cardinality(st.selected)

\* FormFieldChoice::getSelectedChoice: the label of the first selected
\* choice that has one
getSelectedChoice(field, st) ==
    LET sel == {c \in st.selected : field.choices[c + 1] # nullptr}
    IN IF sel = {} THEN nullptr
       ELSE field.choices[(CHOOSE c \in sel : \A d \in sel : c <= d) + 1]

\* the labels collected by the loop over getChoice(c), null labels skipped
RECURSIVE ChoiceOptions(_, _)
ChoiceOptions(choices, c) ==
    IF c > Len(choices) THEN <<>>
    ELSE (IF choices[c] # nullptr THEN <<gooToStd(choices[c])>> ELSE <<>>)
         \o ChoiceOptions(choices, c + 1)

\* the names (lines 174-179): ff is a default-constructed record, fullName
\* the converted fully qualified name
FieldNames(ff, field, fullName) ==
    [ff EXCEPT !.fullName = fullName,
               !.name = IF field.partialName # nullptr THEN gooToStd(field.partialName)
                        ELSE fullName]

\* type and flags (lines 189-193): the required flag is not read
FieldFlags(ff, field) ==
    [ff EXCEPT !.type = convertFieldType(field.type), !.readOnly = field.readOnly]

\* the value by type (lines 196-240)
FieldValue(ff, field, st) ==
    CASE field.type = "formText" ->
            [ff EXCEPT !.value = gooToStd(st.content)]
      [] field.type = "formChoice" ->
            [ff EXCEPT !.value = IF getNumSelected(st) > 0
                                 THEN gooToStd(getSelectedChoice(field, st))
                                 ELSE <<>>,
                       !.options = ChoiceOptions(field.choices, 1)]
      [] field.type = "formButton" ->
            IF field.btnType = "formButtonCheck"
            THEN [ff EXCEPT !.type = "Checkbox", !.isChecked = getState(st, NullCStr)]
            ELSE IF field.btnType = "formButtonRadio"
            THEN [ff EXCEPT !.type = "Radio", !.isChecked = getState(st, NullCStr)]
            ELSE [ff EXCEPT !.type = "Button"]
      [] field.type = "formSignature" ->
            [ff EXCEPT !.type = "Signature"]
      [] OTHER -> ff

\* the geometry of the first widget (lines 243-256)
FieldGeometry(ff, widget) ==
    [ff EXCEPT !.x = widget.rect[1], !.y = widget.rect[2],
               !.width = widget.rect[3] - widget.rect[1],
               !.height = widget.rect[4] - widget.rect[2],
               !.pageIndex = widget.pageNum - 1]

\* the record collectFieldsRecursive builds for the terminal field at node n
MakeRecord(D, n) ==
    FieldGeometry(
        FieldValue(
            FieldFlags(
                FieldNames([DefaultField EXCEPT !.node = n], Node(D, n),
                           gooToStd(Node(D, n).fullName)),
                Node(D, n)),
            Node(D, n), D.st[n]),
        Node(D, n).widgets[1])

\* the two index entries written for the record ff of field
IndexRecord(fieldMap, ff, field) ==
    LET m1 == IF ff.fullName # <<>> THEN MapPut(fieldMap, ff.fullName, field) ELSE fieldMap
    IN IF ff.name # <<>> /\ ff.name # ff.fullName THEN MapPut(m1, ff.name, field) ELSE m1

\* acc is [output, fieldMap]: the record is indexed, then pushed
AddRecord(acc, ff, field) ==
    [output |-> Append(acc.output, ff), fieldMap |-> IndexRecord(acc.fieldMap, ff, field)]

\* field 0 is a null pointer
RECURSIVE collectFieldsRecursive(_, _, _)
RECURSIVE CollectChildren(_, _, _, _)
collectFieldsRecursive(D, n, acc) ==
    IF n = 0 THEN acc
    ELSE CollectChildren(D, Node(D, n).children, 1,
                         IF Len(Node(D, n).widgets) > 0
                         THEN AddRecord(acc, MakeRecord(D, n), [node |-> n, live |-> TRUE])
                         ELSE acc)

\* the loop over getChildren(i)
CollectChildren(D, kids, i, acc) ==
    IF i > Len(kids) THEN acc
    ELSE CollectChildren(D, kids, i + 1, collectFieldsRecursive(D, kids[i], acc))

\* ----------------------------------------------------------------- session
\* S is the Impl object: [doc, originalData, lastError, cachedFields,
\* fieldMap, fieldsCached, modified]
\* lastError_ holds the fixed part of a message; the name, value, path or
\* error code appended to it is left out
NoError == ""
Error(msg) == msg

getForm(S) ==
    S.doc # NoDoc /\ Parsed(S.doc.file).hasForm

\* the end of cacheFormFields: acc is what the walk over the roots produced
Cached(S, acc) ==
    [S EXCEPT !.cachedFields = acc.output, !.fieldMap = acc.fieldMap, !.fieldsCached = TRUE]

\* cacheFormFields without cachedFields_.clear()
cacheFormFields_NoClear(S) ==
    IF S.fieldsCached \/ S.doc = NoDoc THEN S
    ELSE IF ~getForm(S) THEN [S EXCEPT !.fieldsCached = TRUE]
    ELSE Cached(S, CollectChildren(S.doc, Parsed(S.doc.file).roots, 1,
                                   [output |-> S.cachedFields, fieldMap |-> S.fieldMap]))

cacheFormFields(S) ==
    IF S.fieldsCached \/ S.doc = NoDoc THEN S
    ELSE IF ~getForm(S) THEN [S EXCEPT !.cachedFields = <<>>, !.fieldsCached = TRUE]
    ELSE Cached(S, CollectChildren(S.doc, Parsed(S.doc.file).roots, 1,
                                   [output |-> <<>>, fieldMap |-> S.fieldMap]))

\* findFormField is cacheFormFields() followed by the lookup in fieldMap_;
\* the setters below are written in two steps accordingly: f(S, ..) fills the
\* cache and f_found(S1, ..) is the rest of the function on the session S1
\* that leaves
findFormField(S, name) == MapFind(cacheFormFields(S).fieldMap, name)

\* What a read through a dangling FormField pointer yields: the type, the
\* button subtype and whether the choice scan finds the value are whatever
\* the freed memory holds.
UBOutcomes ==
    [type : {"formText", "formSignature"}, btnType : {"formButtonPush"}, match : {FALSE}]
    \cup [type : {"formChoice"}, btnType : {"formButtonPush"}, match : BOOLEAN]
    \cup [type : {"formButton"}, btnType : {"formButtonCheck", "formButtonPush"}, match : {FALSE}]
NoUB == [type |-> "formUndef", btnType |-> "formButtonPush", match |-> FALSE]

\* field->getType() and getButtonType() through a pointer that may dangle
getType(S, field, ub) ==
    IF Live(S.doc, field) THEN Node(S.doc, field.node).type ELSE ub.type
getButtonType(S, field, ub) ==
    IF Live(S.doc, field) THEN Node(S.doc, field.node).btnType ELSE ub.btnType

\* a write through a live pointer changes the node; a write through a
\* dangling one lands in freed memory
WriteNode(S, field, st) ==
    IF Live(S.doc, field) THEN [S EXCEPT !.doc.st[field.node] = st] ELSE S

\* the result of a setter: the session after the call, the value returned,
\* the FormField the name resolved to and the type read from it
Result(S, ret, field, type) ==
    [st |-> S, ret |-> ret, field |-> field, type |-> type]

\* the successful end of a setter without modified_ = true
Invalidated_NoDirty(S) == [S EXCEPT !.fieldsCached = FALSE]

\* the successful end of a setter (modified_ = true; fieldsCached_ = false)
Invalidated(S) == [S EXCEPT !.modified = TRUE, !.fieldsCached = FALSE]

\* FormFieldText::setContentCopy: a copy of the string, the byte order mark
\* prepended when it has none
setContentCopy(new) ==
    IF hasUnicodeByteOrderMark(new) THEN new ELSE unicodeByteOrderMark \o new

\* the text content of a node after setContentCopy(pdfStr)
WithContent(S, field, pdfStr) ==
    IF Live(S.doc, field)
    THEN [S.doc.st[field.node] EXCEPT !.content = setContentCopy(pdfStr)]
    ELSE <<>>

setTextFieldValue_found(S1, name, value, ub) ==
    LET field == MapFind(S1.fieldMap, name)
        type == getType(S1, field, ub)
    IN IF field = NullField
       THEN Result([S1 EXCEPT !.lastError = Error("Field not found")],
                   FALSE, field, "formUndef")
       ELSE IF type # "formText"
       THEN Result([S1 EXCEPT !.lastError = Error("Field is not a text field")],
                   FALSE, field, type)
       ELSE Result(Invalidated(WriteNode(S1, field,
                                         WithContent(S1, field, utf8ToUtf16WithBom(value)))),
                   TRUE, field, type)

setTextFieldValue(S, name, value, ub) ==
    setTextFieldValue_found(cacheFormFields(S), name, value, ub)

\* a scan without the break: the highest index whose label decodes to value
FindChoice_Last(choices, value, i) ==
    IF \E k \in i..(Len(choices) - 1) : choices[k + 1] # nullptr /\ gooToStd(choices[k + 1]) = value
    THEN CHOOSE k \in i..(Len(choices) - 1) :
             /\ choices[k + 1] # nullptr /\ gooToStd(choices[k + 1]) = value
             /\ \A j \in (k + 1)..(Len(choices) - 1) :
                    choices[j + 1] = nullptr \/ gooToStd(choices[j + 1]) # value
    ELSE -1

\* the scan of setChoiceFieldValue: the lowest 0-based index whose label
\* decodes to value, -1 when there is none
RECURSIVE FindChoice(_, _, _)
FindChoice(choices, value, i) ==
    IF i >= Len(choices) THEN -1
    ELSE IF choices[i + 1] # nullptr /\ gooToStd(choices[i + 1]) = value THEN i
    ELSE FindChoice(choices, value, i + 1)

\* FormFieldChoice::select on a single-selection choice: unselectAll, then
\* mark the index
select(st, i) == [st EXCEPT !.selected = {i}]

\* the index the scan yields through a pointer that may dangle
SelectedIdx(S, field, value, ub) ==
    IF Live(S.doc, field) THEN FindChoice(Node(S.doc, field.node).choices, value, 0)
    ELSE IF ub.match THEN 0 ELSE -1

\* the selection of a node after select(selectedIdx)
WithSelected(S, field, selectedIdx) ==
    IF Live(S.doc, field) THEN select(S.doc.st[field.node], selectedIdx) ELSE <<>>

\* setChoiceFieldValue that marks the document modified before its scan
setChoiceFieldValue_found_DirtyOnMiss(S1, name, value, ub) ==
    LET field == MapFind(S1.fieldMap, name)
        type == getType(S1, field, ub)
    IN IF field = NullField
       THEN Result([S1 EXCEPT !.lastError = Error("Field not found")],
                   FALSE, field, "formUndef")
       ELSE IF type # "formChoice"
       THEN Result([S1 EXCEPT !.lastError = Error("Field is not a choice field")],
                   FALSE, field, type)
       ELSE IF SelectedIdx(S1, field, value, ub) < 0
       THEN Result(Invalidated([S1 EXCEPT !.lastError = Error("Value not in choice options")]),
                   FALSE, field, type)
       ELSE Result(Invalidated(WriteNode(S1, field,
                       WithSelected(S1, field, SelectedIdx(S1, field, value, ub)))),
                   TRUE, field, type)

setChoiceFieldValue_found(S1, name, value, ub) ==
    LET field == MapFind(S1.fieldMap, name)
        type == getType(S1, field, ub)
    IN IF field = NullField
       THEN Result([S1 EXCEPT !.lastError = Error("Field not found")],
                   FALSE, field, "formUndef")
       ELSE IF type # "formChoice"
       THEN Result([S1 EXCEPT !.lastError = Error("Field is not a choice field")],
                   FALSE, field, type)
       ELSE IF SelectedIdx(S1, field, value, ub) < 0
       THEN Result([S1 EXCEPT !.lastError = Error("Value not in choice options")],
                   FALSE, field, type)
       ELSE Result(Invalidated(WriteNode(S1, field,
                       WithSelected(S1, field, SelectedIdx(S1, field, value, ub)))),
                   TRUE, field, type)

setChoiceFieldValue(S, name, value, ub) ==
    setChoiceFieldValue_found(cacheFormFields(S), name, value, ub)

\* FormFieldButton::setState for a check box or radio button that is not part
\* of a button set: switching off is refused (false is returned, which the
\* caller ignores) when the field may not be toggled off; otherwise the
\* appearance state becomes the given name
setState(field, st, state) ==
    IF state = "Off" /\ field.noAllOff THEN st
    ELSE [st EXCEPT !.appearanceState = state]

\* the on-state name setButtonFieldValue takes from widget 0, "Yes" when the
\* widget has none
CheckedState(field) ==
    LET onStr == IF Len(field.widgets) > 0 /\ field.widgets[1].type = "formButton"
                 THEN field.widgets[1].onStr
                 ELSE NullCStr
    IN IF onStr = NullCStr \/ onStr = "" THEN "Yes" ELSE onStr

\* the appearance state of a node after setState
WithState(S, field, checked) ==
    IF Live(S.doc, field)
    THEN setState(Node(S.doc, field.node), S.doc.st[field.node],
                  IF checked THEN CheckedState(Node(S.doc, field.node)) ELSE "Off")
    ELSE <<>>

\* setButtonFieldValue that rejects a push-button
setButtonFieldValue_found_PushFails(S1, name, checked, ub) ==
    LET field == MapFind(S1.fieldMap, name)
        type == getType(S1, field, ub)
        btnType == getButtonType(S1, field, ub)
    IN IF field = NullField
       THEN Result([S1 EXCEPT !.lastError = Error("Field not found")],
                   FALSE, field, "formUndef")
       ELSE IF type # "formButton"
       THEN Result([S1 EXCEPT !.lastError = Error("Field is not a button field")],
                   FALSE, field, type)
       ELSE IF btnType # "formButtonCheck" /\ btnType # "formButtonRadio"
       THEN Result([S1 EXCEPT !.lastError = Error("Field is not a button field")],
                   FALSE, field, type)
       ELSE Result(Invalidated(WriteNode(S1, field, WithState(S1, field, checked))),
                   TRUE, field, type)

setButtonFieldValue_found(S1, name, checked, ub) ==
    LET field == MapFind(S1.fieldMap, name)
        type == getType(S1, field, ub)
        btnType == getButtonType(S1, field, ub)
    IN IF field = NullField
       THEN Result([S1 EXCEPT !.lastError = Error("Field not found")],
                   FALSE, field, "formUndef")
       ELSE IF type # "formButton"
       THEN Result([S1 EXCEPT !.lastError = Error("Field is not a button field")],
                   FALSE, field, type)
       ELSE IF btnType # "formButtonCheck" /\ btnType # "formButtonRadio"
       THEN Result(S1, TRUE, field, type)
       ELSE Result(Invalidated(WriteNode(S1, field, WithState(S1, field, checked))),
                   TRUE, field, type)

setButtonFieldValue(S, name, checked, ub) ==
    setButtonFieldValue_found(cacheFormFields(S), name, checked, ub)

\* PdfDocument::setFieldValue
setFieldValue_found(S1, name, value, ub) ==
    LET field == MapFind(S1.fieldMap, name)
        type == getType(S1, field, ub)
    IN IF field = NullField
       THEN Result([S1 EXCEPT !.lastError = Error("Field not found")],
                   FALSE, field, "formUndef")
       ELSE CASE type = "formText" -> setTextFieldValue(S1, name, value, ub)
              [] type = "formChoice" -> setChoiceFieldValue(S1, name, value, ub)
              [] type = "formButton" ->
                    setButtonFieldValue(S1, name, value # <<>> /\ value # S_0 /\ value # S_false, ub)
              [] OTHER ->
                    Result([S1 EXCEPT !.lastError = Error("Unsupported field type for setValue")],
                           FALSE, field, type)

setFieldValue(S, name, value, ub) ==
    setFieldValue_found(cacheFormFields(S), name, value, ub)

\* PdfDocument::setCheckboxValue
setCheckboxValue(S, name, checked, ub) == setButtonFieldValue(S, name, checked, ub)

\* PdfDocument::setFieldValues: [st, ret, rets], rets being what each
\* setFieldValue returned; r is the result of the first pair, rest that of
\* the pairs after it
BatchResult(r, rest) ==
    [st |-> rest.st, ret |-> r.ret /\ rest.ret, rets |-> <<r.ret>> \o rest.rets]

\* setFieldValues that stops at the first pair that fails
RECURSIVE setFieldValues_ShortCircuit(_, _, _)
RECURSIVE ShortCircuitRest(_, _, _)
ShortCircuitRest(r, values, ub) ==
    IF ~r.ret THEN [st |-> r.st, ret |-> FALSE, rets |-> <<FALSE>>]
    ELSE BatchResult(r, setFieldValues_ShortCircuit(r.st, values, ub))

setFieldValues_ShortCircuit(S, values, ub) ==
    IF values = <<>> THEN [st |-> S, ret |-> TRUE, rets |-> <<>>]
    ELSE ShortCircuitRest(setFieldValue(S, Head(values)[1], Head(values)[2], ub),
                          Tail(values), ub)

RECURSIVE setFieldValues(_, _, _)
RECURSIVE BatchRest(_, _, _)
setFieldValues(S, values, ub) ==
    IF values = <<>> THEN [st |-> S, ret |-> TRUE, rets |-> <<>>]
    ELSE BatchRest(setFieldValue(S, Head(values)[1], Head(values)[2], ub), Tail(values), ub)

BatchRest(r, values, ub) == BatchResult(r, setFieldValues(r.st, values, ub))

\* PdfDocument::getFieldByName: the position in cachedFields of the record
\* returned, 0 for a null pointer
RECURSIVE ScanFields(_, _, _)
ScanFields(fields, name, i) ==
    IF i > Len(fields) THEN 0
    ELSE IF fields[i].name = name \/ fields[i].fullName = name THEN i
    ELSE ScanFields(fields, name, i + 1)

getFieldByName_found(S1, name) ==
    [st |-> S1, idx |-> ScanFields(S1.cachedFields, name, 1)]

getFieldByName(S, name) == getFieldByName_found(cacheFormFields(S), name)

\* PdfDocument::getFormFields: the vector returned is st.cachedFields
getFormFields(S) == cacheFormFields(S)

getPageCount(S) == IF S.doc # NoDoc THEN Parsed(S.doc.file).numPages ELSE 0

\* Impl::loadFromMemory without fieldsCached_ = false; modified_ = false
loadFromMemory_KeepFlags(S, data, password) ==
    LET S1 == [S EXCEPT !.originalData = data, !.fieldMap = Freed(S.fieldMap)]
        code == ErrorCode(data, password)
    IN IF code # 0
       THEN [st |-> [S1 EXCEPT !.lastError = Error("Failed to load PDF: error code"),
                                !.doc = NoDoc],
             ret |-> FALSE]
       ELSE [st |-> [S1 EXCEPT !.doc = NewDoc(data)], ret |-> TRUE]

\* Impl::loadFromMemory; assigning the new PDFDoc to doc_ destroys the one it
\* held
loadFromMemory(S, data, password) ==
    LET S1 == [S EXCEPT !.originalData = data, !.fieldMap = Freed(S.fieldMap)]
        code == ErrorCode(data, password)
    IN IF code # 0
       THEN [st |-> [S1 EXCEPT !.lastError = Error("Failed to load PDF: error code"),
                                !.doc = NoDoc],
             ret |-> FALSE]
       ELSE [st |-> [S1 EXCEPT !.doc = NewDoc(data), !.fieldsCached = FALSE, !.modified = FALSE],
             ret |-> TRUE]

\* Impl::loadFromFile
loadFromFile(S, path, password) ==
    IF FileAt(path) = ""
    THEN [st |-> [S EXCEPT !.lastError = Error("Failed to open file")], ret |-> FALSE]
    ELSE loadFromMemory([S EXCEPT !.originalData = FileAt(path)], FileAt(path), password)

\* flattenForm without modified_ = true
flattenForm_NoDirty(S) ==
    IF S.doc = NoDoc THEN [st |-> [S EXCEPT !.lastError = Error("No document loaded")], ret |-> FALSE]
    ELSE IF ~getForm(S) THEN [st |-> [S EXCEPT !.lastError = Error("Document has no form")], ret |-> FALSE]
    ELSE [st |-> S, ret |-> TRUE]

\* Impl::flattenForm
flattenForm(S) ==
    IF S.doc = NoDoc THEN [st |-> [S EXCEPT !.lastError = Error("No document loaded")], ret |-> FALSE]
    ELSE IF ~getForm(S) THEN [st |-> [S EXCEPT !.lastError = Error("Document has no form")], ret |-> FALSE]
    ELSE [st |-> [S EXCEPT !.modified = TRUE], ret |-> TRUE]

\* what the file layer does during a save: the code PDFDoc::saveAs returns
\* (0 errNone, 1 errOpenFile: no file was created) and whether the file
\* written can be opened for reading back
SaveOutcomes == [result : {0, 1}, readable : BOOLEAN]

\* the write mode chosen without looking at modified_
WriteMode_AlwaysStandard(S) == "writeStandard"

\* PDFWriteMode writeMode = modified_ ? writeForceRewrite : writeStandard
WriteMode(S) == IF S.modified THEN "writeForceRewrite" ELSE "writeStandard"

\* the staging file left in place
stdRemove_Skipped(exists) == exists

\* std::remove(tempPath): afterwards the file does not exist
stdRemove(exists) == FALSE

\* saveToMemory that clears modified_ once the bytes were read back
saveToMemory_ClearsDirty(S, tmp, io) ==
    IF S.doc = NoDoc
    THEN [st |-> [S EXCEPT !.lastError = Error("No document loaded")], ret |-> FALSE,
          mode |-> "", tmp |-> tmp]
    ELSE IF io.result # 0
    THEN [st |-> [S EXCEPT !.lastError = Error("Failed to save PDF: error code")],
          ret |-> FALSE, mode |-> WriteMode(S), tmp |-> tmp]
    ELSE IF ~io.readable
    THEN [st |-> [S EXCEPT !.lastError = Error("Failed to read saved PDF")],
          ret |-> FALSE, mode |-> WriteMode(S), tmp |-> stdRemove(TRUE)]
    ELSE [st |-> [S EXCEPT !.modified = FALSE], ret |-> TRUE, mode |-> WriteMode(S),
          tmp |-> stdRemove(TRUE)]

\* Impl::saveToMemory: [st, ret (bytes were returned), mode, tmp (the staging
\* file exists after the call)].  saveAs that returns errNone has written the
\* staging file; saveAs that fails could not open it and has created nothing.
saveToMemory(S, tmp, io) ==
    IF S.doc = NoDoc
    THEN [st |-> [S EXCEPT !.lastError = Error("No document loaded")], ret |-> FALSE,
          mode |-> "", tmp |-> tmp]
    ELSE IF io.result # 0
    THEN [st |-> [S EXCEPT !.lastError = Error("Failed to save PDF: error code")],
          ret |-> FALSE, mode |-> WriteMode(S), tmp |-> tmp]
    ELSE IF ~io.readable
    THEN [st |-> [S EXCEPT !.lastError = Error("Failed to read saved PDF")],
          ret |-> FALSE, mode |-> WriteMode(S), tmp |-> stdRemove(TRUE)]
    ELSE [st |-> S, ret |-> TRUE, mode |-> WriteMode(S), tmp |-> stdRemove(TRUE)]

\* what the rasterizer and the PNG encoder do during a render
RenderOutcomes == {"ok", "noBitmap", "pngError"}

\* renderPageToPng with > for >= in its range check
renderPageToPng_OffByOne(S, pageIndex, dpi, io) ==
    IF S.doc = NoDoc \/ pageIndex < 0 \/ pageIndex > Parsed(S.doc.file).numPages
    THEN [st |-> S, ret |-> FALSE, delegated |-> FALSE]
    ELSE IF io = "noBitmap"
    THEN [st |-> [S EXCEPT !.lastError = Error("Failed to render page")], ret |-> FALSE,
          delegated |-> TRUE]
    ELSE [st |-> S, ret |-> io = "ok", delegated |-> TRUE]

\* Impl::renderPageToPng: [st, ret (a non-empty image was returned),
\* delegated (displayPage was called)]
renderPageToPng(S, pageIndex, dpi, io) ==
    IF S.doc = NoDoc \/ pageIndex < 0 \/ pageIndex >= Parsed(S.doc.file).numPages
    THEN [st |-> S, ret |-> FALSE, delegated |-> FALSE]
    ELSE IF io = "noBitmap"
    THEN [st |-> [S EXCEPT !.lastError = Error("Failed to render page")], ret |-> FALSE,
          delegated |-> TRUE]
    ELSE [st |-> S, ret |-> io = "ok", delegated |-> TRUE]

\* ------------------------------------------------------------------- state
VARIABLES
    doc_,            \* std::unique_ptr<PDFDoc>
    originalData_,   \* the buffer of the last load
    lastError_,
    cachedFields_,   \* std::vector<PdfFormField>
    fieldMap_,       \* name -> FormField*
    fieldsCached_,
    modified_,
    tmpFile,         \* the staging file of saveToMemory exists
    callStack        \* the frames of a cacheFormFields call in progress

vars == <<doc_, originalData_, lastError_, cachedFields_, fieldMap_, fieldsCached_,
          modified_, tmpFile, callStack>>

Impl ==
    [doc |-> doc_, originalData |-> originalData_, lastError |-> lastError_,
     cachedFields |-> cachedFields_, fieldMap |-> fieldMap_,
     fieldsCached |-> fieldsCached_, modified |-> modified_]

Becomes(S) ==
    /\ doc_' = S.doc
    /\ originalData_' = S.originalData
    /\ lastError_' = S.lastError
    /\ cachedFields_' = S.cachedFields
    /\ fieldMap_' = S.fieldMap
    /\ fieldsCached_' = S.fieldsCached
    /\ modified_' = S.modified
    /\ callStack' = <<>>

\* the inputs the operations are called with
Ids == {S_b, S_ab, S_k, S_r, S_p, S_g, S_tdot, S_zz}
Values == {S_0, S_eacute}
Loads == {<<"A", "">>, <<"B", "">>, <<"C", "pw">>, <<"C", "">>}
BatchPairs == {<<S_b, S_eacute>>, <<S_zz, S_0>>}
RECURSIVE SeqsUpTo(_, _)
SeqsUpTo(T, n) ==
    IF n = 0 THEN {<<>>}
    ELSE SeqsUpTo(T, n - 1) \cup {Append(q, t) : q \in SeqsUpTo(T, n - 1), t \in T}
Batches == SeqsUpTo(BatchPairs, MaxBatch)
PageIndexes == -1..2
Dpis == {150}

\* the outcomes of undefined behaviour a call on name can meet
UBAt(D, field) ==
    IF field = NullField \/ Live(D, field) THEN {NoUB} ELSE UBOutcomes

UBFor(S, name) == UBAt(S.doc, findFormField(S, name))

\* the outcomes of undefined behaviour a batch can meet
UBForAll(S, values) ==
    IF \E i \in 1..Len(values) : UBFor(S, values[i][1]) # {NoUB} THEN UBOutcomes ELSE {NoUB}

Init ==
    /\ doc_ = NoDoc
    /\ originalData_ = ""
    /\ lastError_ = NoError
    /\ cachedFields_ = <<>>
    /\ fieldMap_ = EmptyMap
    /\ fieldsCached_ = FALSE
    /\ modified_ = FALSE
    /\ tmpFile = FALSE
    /\ callStack = <<>>

\* ----------------------------------------------------------------- actions
LoadFromMemory(data, password) ==
    /\ Becomes(loadFromMemory(Impl, data, password).st)
    /\ UNCHANGED tmpFile

LoadFromFile(path, password) ==
    /\ Becomes(loadFromFile(Impl, path, password).st)
    /\ UNCHANGED tmpFile

GetFormFields ==
    /\ Becomes(getFormFields(Impl))
    /\ UNCHANGED tmpFile

GetFieldByName(name) ==
    /\ Becomes(getFieldByName(Impl, name).st)
    /\ UNCHANGED tmpFile

SetFieldValue(name, value) ==
    /\ \E ub \in UBFor(Impl, name) : Becomes(setFieldValue(Impl, name, value, ub).st)
    /\ UNCHANGED tmpFile

SetCheckboxValue(name, checked) ==
    /\ \E ub \in UBFor(Impl, name) : Becomes(setCheckboxValue(Impl, name, checked, ub).st)
    /\ UNCHANGED tmpFile

SetFieldValues(values) ==
    /\ \E ub \in UBForAll(Impl, values) : Becomes(setFieldValues(Impl, values, ub).st)
    /\ UNCHANGED tmpFile

FlattenForm ==
    /\ Becomes(flattenForm(Impl).st)
    /\ UNCHANGED tmpFile

SaveToMemory ==
    \E io \in SaveOutcomes :
        /\ Becomes(saveToMemory(Impl, tmpFile, io).st)
        /\ tmpFile' = saveToMemory(Impl, tmpFile, io).tmp

RenderPageToPng(pageIndex, dpi) ==
    /\ \E io \in RenderOutcomes : Becomes(renderPageToPng(Impl, pageIndex, dpi, io).st)
    /\ UNCHANGED tmpFile

Next ==
    \/ \E l \in Loads : LoadFromMemory(l[1], l[2])
    \/ \E path \in Paths : LoadFromFile(path, "")
    \/ GetFormFields
    \/ \E name \in Ids : GetFieldByName(name)
    \/ \E name \in Ids, value \in Values : SetFieldValue(name, value)
    \/ \E name \in Ids, checked \in BOOLEAN : SetCheckboxValue(name, checked)
    \/ \E values \in Batches : SetFieldValues(values)
    \/ FlattenForm
    \/ SaveToMemory
    \/ \E pageIndex \in PageIndexes, dpi \in Dpis : RenderPageToPng(pageIndex, dpi)

Spec == Init /\ [][Next]_vars

\* ------------------------------------------------- the traversal, by steps
\* One call of cacheFormFields taken a step at a time.  callStack holds a
\* frame for the loop over the root fields (field FormLoop) and, above it,
\* one frame for every call of collectFieldsRecursive that has not returned;
\* i is the index (1-based) of the root or child the frame's loop is at.
FormLoop == -1
Frame(field, i) == [field |-> field, i |-> i]
Top == callStack[Len(callStack)]

\* the roots or children taken from the last to the first
FrameKids_Reversed(D, frame) ==
    IF frame.field = FormLoop
    THEN [i \in 1..Len(Parsed(D.file).roots) |->
             Parsed(D.file).roots[Len(Parsed(D.file).roots) + 1 - i]]
    ELSE IF frame.field = 0 THEN <<>>
    ELSE [i \in 1..Len(Node(D, frame.field).children) |->
             Node(D, frame.field).children[Len(Node(D, frame.field).children) + 1 - i]]

\* what the loop of frame iterates over
FrameKids(D, frame) ==
    IF frame.field = FormLoop THEN Parsed(D.file).roots
    ELSE IF frame.field = 0 THEN <<>>
    ELSE Node(D, frame.field).children

\* a loop that does not advance
NextChild_Stuck(frame) == frame
\* ++i
NextChild(frame) == [frame EXCEPT !.i = @ + 1]

\* the head of collectFieldsRecursive on field: a terminal field is recorded
Entered(acc, D, field) ==
    IF field # 0 /\ Len(Node(D, field).widgets) > 0
    THEN AddRecord(acc, MakeRecord(D, field), [node |-> field, live |-> TRUE])
    ELSE acc

\* a session, loaded and not yet listed, on which cacheFormFields is called
FlattenLoads == Loads \cup {<<"K", "">>, <<"P", "">>}
Fresh(l) ==
    loadFromMemory([doc |-> NoDoc, originalData |-> "", lastError |-> NoError,
                    cachedFields |-> <<>>, fieldMap |-> EmptyMap,
                    fieldsCached |-> FALSE, modified |-> FALSE], l[1], l[2]).st
FlattenSessions ==
    {S \in {Fresh(l) : l \in FlattenLoads}
            \cup {[setFieldValue(Fresh(l), name, value, NoUB).st EXCEPT
                      !.fieldsCached = FALSE, !.cachedFields = <<>>, !.fieldMap = EmptyMap] :
                  l \in FlattenLoads, name \in Ids \cup {S_abk}, value \in Values} :
        S.doc # NoDoc}

InitFlatten ==
    /\ \E S \in FlattenSessions :
           /\ doc_ = S.doc
           /\ originalData_ = S.originalData
           /\ lastError_ = S.lastError
           /\ modified_ = S.modified
    /\ cachedFields_ = <<>>
    /\ fieldMap_ = EmptyMap
    /\ fieldsCached_ = FALSE
    /\ tmpFile = FALSE
    /\ callStack = <<>>

\* cacheFormFields up to its loop (lines 143-152)
BeginCache ==
    /\ callStack = <<>>
    /\ ~fieldsCached_
    /\ doc_ # NoDoc
    /\ cachedFields_' = <<>>
    /\ fieldsCached_' = ~getForm(Impl)
    /\ callStack' = IF getForm(Impl) THEN <<Frame(FormLoop, 1)>> ELSE <<>>
    /\ UNCHANGED <<doc_, originalData_, lastError_, fieldMap_, modified_, tmpFile>>

\* the loop body: a null root is passed over (line 156), any other root and
\* every child is handed to collectFieldsRecursive (lines 157, 261)
CallChild ==
    /\ callStack # <<>>
    /\ Top.i <= Len(FrameKids(doc_, Top))
    /\ IF Top.field = FormLoop /\ FrameKids(doc_, Top)[Top.i] = 0
       THEN /\ callStack' = [callStack EXCEPT ![Len(callStack)] = NextChild(Top)]
            /\ UNCHANGED <<cachedFields_, fieldMap_>>
       ELSE /\ callStack' = Append(callStack, Frame(FrameKids(doc_, Top)[Top.i], 1))
            /\ cachedFields_' = Entered([output |-> cachedFields_, fieldMap |-> fieldMap_],
                                        doc_, FrameKids(doc_, Top)[Top.i]).output
            /\ fieldMap_' = Entered([output |-> cachedFields_, fieldMap |-> fieldMap_],
                                    doc_, FrameKids(doc_, Top)[Top.i]).fieldMap
    /\ UNCHANGED <<doc_, originalData_, lastError_, fieldsCached_, modified_, tmpFile>>

\* collectFieldsRecursive returns (line 165, or the end of its loop): the
\* caller's loop goes on to its next child
Return ==
    /\ Len(callStack) >= 2
    /\ Top.i > Len(FrameKids(doc_, Top))
    /\ callStack' = [SubSeq(callStack, 1, Len(callStack) - 1) EXCEPT
                        ![Len(callStack) - 1] = NextChild(callStack[Len(callStack) - 1])]
    /\ UNCHANGED <<doc_, originalData_, lastError_, cachedFields_, fieldMap_, fieldsCached_,
                   modified_, tmpFile>>

\* the loop over the roots is through (line 160)
EndCache ==
    /\ Len(callStack) = 1
    /\ Top.i > Len(FrameKids(doc_, Top))
    /\ fieldsCached_' = TRUE
    /\ callStack' = <<>>
    /\ UNCHANGED <<doc_, originalData_, lastError_, cachedFields_, fieldMap_, modified_, tmpFile>>

NextFlatten ==
    \/ BeginCache
    \/ CallChild
    \/ Return
    \/ EndCache

\* the call runs on one thread and nothing suspends it: a step that can be
\* taken is taken
SpecFlatten == InitFlatten /\ [][NextFlatten]_vars /\ WF_vars(NextFlatten)

\* ------------------------------------------------------------------ claims
\* the sessions a successful setter call can leave behind, from session S
AfterSuccessfulSet(S) ==
    {setFieldValue(S, name, value, ub).st :
        <<name, value, ub>> \in {t \in Ids \X Values \X UBOutcomes :
            /\ t[3] \in UBFor(S, t[1])
            /\ setFieldValue(S, t[1], t[2], t[3]).ret}}
    \cup
    {setCheckboxValue(S, name, checked, ub).st :
        <<name, checked, ub>> \in {t \in Ids \X BOOLEAN \X UBOutcomes :
            /\ t[3] \in UBFor(S, t[1])
            /\ setCheckboxValue(S, t[1], t[2], t[3]).ret}}

\* the positions of the records of fields that were built from node n
RecordsOf(fields, n) == {i \in 1..Len(fields) : fields[i].node = n}

\* C1: with a document loaded, listFields() holds every node that has a
\* widget exactly once and no node without widgets, and listing again, at
\* once or after a successful mutation, returns as many records
C1_FlattenComplete ==
    doc_ # NoDoc =>
        LET listed == getFormFields(Impl)
            nodes == Parsed(doc_.file).nodes
        IN /\ \A n \in 1..Len(nodes) :
                Cardinality(RecordsOf(listed.cachedFields, n))
                    = IF Len(nodes[n].widgets) > 0 THEN 1 ELSE 0
           /\ \A i \in 1..Len(listed.cachedFields) :
                listed.cachedFields[i].node \in 1..Len(nodes)
           /\ Len(getFormFields(listed).cachedFields) = Len(listed.cachedFields)
           /\ \A T \in AfterSuccessfulSet(listed) :
                Len(getFormFields(T).cachedFields) = Len(listed.cachedFields)

\* document "A" listed again after its field "a.b" was set: two records, none
\* for the container
C1_Witness ==
    /\ doc_ # NoDoc
    /\ doc_.file = "A"
    /\ modified_
    /\ fieldsCached_
    /\ Len(cachedFields_) = 2
    /\ cachedFields_[2].value = S_eacute

\* the flattening of document D on its own: what a walk over its roots emits
FlattenOf(D) ==
    IF D = NoDoc \/ ~Parsed(D.file).hasForm THEN <<>>
    ELSE CollectChildren(D, Parsed(D.file).roots, 1,
                         [output |-> <<>>, fieldMap |-> EmptyMap]).output

\* the index entry of key resolves to the live node that produced record ff
ResolvesTo(S, key, ff) == MapFind(S.fieldMap, key) = [node |-> ff.node, live |-> TRUE]

IndexCorresponds(S) ==
    \A i \in 1..Len(S.cachedFields) :
        /\ S.cachedFields[i].fullName # <<>>
              => ResolvesTo(S, S.cachedFields[i].fullName, S.cachedFields[i])
        /\ (S.cachedFields[i].name # <<>> /\ S.cachedFields[i].name # S.cachedFields[i].fullName)
              => ResolvesTo(S, S.cachedFields[i].name, S.cachedFields[i])

\* C2: after flattening, the index entry of every record's non-empty
\* fullName, and of its non-empty name that differs from the fullName, is the
\* node that produced the record
C2_IndexCorrespondence ==
    doc_ # NoDoc => IndexCorresponds(getFormFields(Impl))

\* r is the result of a setter: when it reports success, the next
\* listFields() returns the flattening of the document as it is now
ListsCurrentValues(r) ==
    r.ret => getFormFields(r.st).cachedFields = FlattenOf(r.st.doc)

\* C3: after every successful setFieldValue, setCheckboxValue or
\* setFieldValues, the next listFields() returns records computed from the
\* document's current field values
C3_CacheInvalidation ==
    /\ \A name \in Ids, value \in Values : \A ub \in UBFor(Impl, name) :
           ListsCurrentValues(setFieldValue(Impl, name, value, ub))
    /\ \A name \in Ids, checked \in BOOLEAN : \A ub \in UBFor(Impl, name) :
           ListsCurrentValues(setCheckboxValue(Impl, name, checked, ub))
    /\ \A values \in Batches : \A ub \in UBForAll(Impl, values) :
           ListsCurrentValues(setFieldValues(Impl, values, ub))


\* r is the result of a setter: success leaves the dirty flag set and the
\* cache marked invalid
DirtyAndInvalid(r) == r.ret => (r.st.modified /\ ~r.st.fieldsCached)

\* C4 as stated: every successful setFieldValue or setCheckboxValue leaves
\* the dirty flag set and the flatten cache invalid, push-buttons included
C4_Original ==
    /\ \A name \in Ids, value \in Values : \A ub \in UBFor(Impl, name) :
           DirtyAndInvalid(setFieldValue(Impl, name, value, ub))
    /\ \A name \in Ids, checked \in BOOLEAN : \A ub \in UBFor(Impl, name) :
           DirtyAndInvalid(setCheckboxValue(Impl, name, checked, ub))

\* the call read the field it resolved as a push-button
ReadAsPush(S1, r, ub) ==
    /\ r.type = "formButton"
    /\ getButtonType(S1, r.field, ub) \notin {"formButtonCheck", "formButtonRadio"}

\* S1 is the session once the name was resolved, r the result of the setter
DirtyUnlessPush(S1, r, ub) ==
    r.ret => IF ReadAsPush(S1, r, ub)
             THEN r.st.modified = S1.modified /\ r.st.fieldsCached = S1.fieldsCached
             ELSE r.st.modified /\ ~r.st.fieldsCached

\* C4: a successful setFieldValue or setCheckboxValue on a field read as
\* text, choice, check box or radio button leaves the dirty flag set and the
\* flatten cache invalid; on a field read as a push-button it leaves both
\* flags as resolving the name left them
C4_DirtyUnlessPush ==
    /\ \A name \in Ids, value \in Values : \A ub \in UBFor(Impl, name) :
           DirtyUnlessPush(cacheFormFields(Impl), setFieldValue(Impl, name, value, ub), ub)
    /\ \A name \in Ids, checked \in BOOLEAN : \A ub \in UBFor(Impl, name) :
           DirtyUnlessPush(cacheFormFields(Impl), setCheckboxValue(Impl, name, checked, ub), ub)

\* document "B" after its check box "k" was switched on and before the next
\* listing
C4_Witness ==
    /\ doc_ # NoDoc
    /\ doc_.file = "B"
    /\ doc_.st[1].appearanceState = "On"
    /\ modified_
    /\ ~fieldsCached_

\* r is the result of a setter: it failed without resolving the name to a
\* field node
FailsWithoutNode(r) == ~r.ret /\ r.field = NullField

\* C5: with no document loaded, setFieldValue, setCheckboxValue,
\* setFieldValues (of at least one pair), flattenForm and save return failure
\* and no setter reaches a field node of an earlier document
C5_EmptyFails ==
    doc_ = NoDoc =>
        /\ \A name \in Ids, value \in Values : \A ub \in UBFor(Impl, name) :
               FailsWithoutNode(setFieldValue(Impl, name, value, ub))
        /\ \A name \in Ids, checked \in BOOLEAN : \A ub \in UBFor(Impl, name) :
               FailsWithoutNode(setCheckboxValue(Impl, name, checked, ub))
        /\ \A values \in Batches \ {<<>>} : \A ub \in UBForAll(Impl, values) :
               ~setFieldValues(Impl, values, ub).ret
        /\ ~flattenForm(Impl).ret
        /\ \A io \in SaveOutcomes : ~saveToMemory(Impl, tmpFile, io).ret

\* C6: with no document loaded, listFields() is empty and field(id) is
\* absent for every identifier
C6_EmptyListsNothing ==
    doc_ = NoDoc =>
        /\ getFormFields(Impl).cachedFields = <<>>
        /\ \A name \in Ids : getFieldByName(Impl, name).idx = 0


\* name is neither the name nor the fullName of a field of document D
NamesNoField(D, name) ==
    \A i \in 1..Len(FlattenOf(D)) :
        FlattenOf(D)[i].name # name /\ FlattenOf(D)[i].fullName # name

\* r is the result of a setter: it failed with FieldNotFound
FieldNotFound(r) ==
    /\ ~r.ret
    /\ r.field = NullField
    /\ r.st.lastError = Error("Field not found")

\* no entry of the index points into a PDFDoc that no longer exists
NoStaleEntry(S) == \A k \in DOMAIN S.fieldMap : S.fieldMap[k].live

\* C7: with a document loaded, an identifier that names none of its fields
\* resolves to nothing, whatever an earlier document called its fields:
\* setFieldValue and setCheckboxValue fail with FieldNotFound, and the index
\* holds no entry that points to a node of an earlier document
C7_ReloadResetsIndex ==
    doc_ # NoDoc =>
        /\ \A name \in Ids : NamesNoField(doc_, name) =>
              /\ \A value \in Values : \A ub \in UBFor(Impl, name) :
                     FieldNotFound(setFieldValue(Impl, name, value, ub))
              /\ \A checked \in BOOLEAN : \A ub \in UBFor(Impl, name) :
                     FieldNotFound(setCheckboxValue(Impl, name, checked, ub))
        /\ NoStaleEntry(getFormFields(Impl))

\* r is the result of loading data: success leaves the dirty flag clear and
\* the cache invalid, the next listFields() is the flattening of the new
\* document and the next save uses writeStandard
LoadResets(r, data) ==
    r.ret =>
        /\ ~r.st.modified
        /\ ~r.st.fieldsCached
        /\ getFormFields(r.st).cachedFields = FlattenOf(NewDoc(data))
        /\ \A io \in SaveOutcomes : saveToMemory(r.st, tmpFile, io).mode = "writeStandard"

\* C8: every load that succeeds, from any state, leaves the dirty flag clear
\* and the cache invalid, so that the next listFields() is the flattening of
\* the newly loaded document and the next save is not a forced rewrite
C8_LoadResets ==
    /\ \A l \in Loads : LoadResets(loadFromMemory(Impl, l[1], l[2]), l[1])
    /\ \A path \in Paths : LoadResets(loadFromFile(Impl, path, ""), FileAt(path))

\* document "B" freshly loaded into a session that had edited and listed
\* document "A"
C8_Witness ==
    /\ doc_ = NewDoc("B")
    /\ ~modified_
    /\ ~fieldsCached_
    /\ Len(cachedFields_) = 2
    /\ cachedFields_[2].value = S_eacute

\* r is the result of a load: failure leaves no document, a page count of 0
\* and the error of the load in lastError_
FailedLoadEmpties(r) ==
    ~r.ret =>
        /\ r.st.doc = NoDoc
        /\ getPageCount(r.st) = 0
        /\ r.st.lastError \in {Error("Failed to load PDF: error code"),
                               Error("Failed to open file")}

\* C9: after a load that fails, from bytes or from a path, no document is
\* loaded, pageCount() is 0 and an error is recorded
C9_FailedLoadEmpties ==
    /\ \A l \in Loads : FailedLoadEmpties(loadFromMemory(Impl, l[1], l[2]))
    /\ \A path \in Paths : FailedLoadEmpties(loadFromFile(Impl, path, ""))

\* the value of the record field(id) returned, nullptr when it is absent
ValueOf(g) == IF g.idx = 0 THEN nullptr ELSE g.st.cachedFields[g.idx].value

\* f is field(name) before the call, r the result of setFieldValue(name, v)
ReadsBack(f, r, name, v) ==
    (/\ f.idx # 0
     /\ f.st.cachedFields[f.idx].type \in {"Text", "Choice"}
     /\ r.ret)
        => ValueOf(getFieldByName(r.st, name)) = v

\* C10: when field(f) is a Text or Choice field and setFieldValue(f, v)
\* succeeds, field(f).value after re-flattening is v
C10_SetGet ==
    doc_ # NoDoc =>
        \A name \in Ids, v \in Values \cup {S_empty} : \A ub \in UBFor(Impl, name) :
            ReadsBack(getFieldByName(Impl, name), setFieldValue(Impl, name, v, ub), name, v)


\* the strings the claims about buttons are tried with
ButtonValues == {S_empty, S_0, S_false, S_eacute, S_a}

\* the isChecked member of the record field(id) returned
IsCheckedOf(g) == g.idx # 0 /\ g.st.cachedFields[g.idx].isChecked

\* f is field(name) before the call, r the result of setFieldValue(name, v)
ChecksAs(f, r, name, v) ==
    (f.idx # 0 /\ f.st.cachedFields[f.idx].type \in {"Checkbox", "Radio"})
        => IsCheckedOf(getFieldByName(r.st, name)) = (v \notin {S_empty, S_0, S_false})

\* C11: for a check box or radio button f, field(f).isChecked after
\* setFieldValue(f, v) is false when v is "", "0" or "false" and true for
\* every other v
C11_CheckboxMapping ==
    doc_ # NoDoc =>
        \A name \in Ids, v \in ButtonValues : \A ub \in UBFor(Impl, name) :
            ChecksAs(getFieldByName(Impl, name), setFieldValue(Impl, name, v, ub), name, v)

\* setFieldValue applied to the pairs from the i-th on, one after the
\* other, each to the session the one before it left; rets is what the calls
\* so far returned.  The outcome is the last session, every returned value,
\* and true exactly when every call returned true
RECURSIVE PairByPair(_, _, _, _, _)
RECURSIVE PairApplied(_, _, _, _, _)
PairByPair(S, values, ub, i, rets) ==
    IF i > Len(values)
    THEN [st |-> S, ret |-> \A k \in 1..Len(values) : rets[k], rets |-> rets]
    ELSE PairApplied(setFieldValue(S, values[i][1], values[i][2], ub), values, ub, i, rets)

PairApplied(r, values, ub, i, rets) ==
    PairByPair(r.st, values, ub, i + 1, Append(rets, r.ret))

\* C12: setFieldValues applies setFieldValue to every pair in order, a
\* failing pair stops nothing, and it returns true exactly when every pair
\* returned true
C12_BatchAppliesAll ==
    \A values \in Batches : \A ub \in UBForAll(Impl, values) :
        setFieldValues(Impl, values, ub) = PairByPair(Impl, values, ub, 1, <<>>)

\* document "A" after the batch (("b", e-acute), ("zz", "0")): the batch
\* failed on "zz" and the text field holds the new value
C12_Witness ==
    /\ doc_ # NoDoc
    /\ doc_.file = "A"
    /\ doc_.st[3].content = unicodeByteOrderMark \o <<0, 233>>
    /\ modified_
    /\ fieldsCached_
    /\ lastError_ = Error("Field not found")


\* g is the result of field(id) on session S: the document, the dirty flag
\* and the last error are those of S
LeavesSession(S, g) ==
    /\ g.st.doc = S.doc
    /\ g.st.modified = S.modified
    /\ g.st.lastError = S.lastError

\* C13: field(id) with an identifier that names no field of the session's
\* document (none at all when no document is loaded) returns absent and
\* leaves the document, the dirty flag and the last error unchanged
C13_UnknownFieldSafe ==
    \A name \in Ids : NamesNoField(doc_, name) =>
        /\ getFieldByName(Impl, name).idx = 0
        /\ LeavesSession(Impl, getFieldByName(Impl, name))


\* a step that takes the dirty flag away is a load that succeeded: it leaves
\* a document as parsed from the buffer it was given, and no cache
ClearedOnlyByLoad ==
    (modified_ /\ ~modified_') =>
        /\ doc_' # NoDoc
        /\ doc_' = NewDoc(originalData_')
        /\ ~fieldsCached_'

\* a step that changes a value held by the loaded document, other than
\* by loading it anew, leaves the dirty flag set
MutationMarksDirty ==
    (/\ doc_ # NoDoc
     /\ doc_'.file = doc_.file
     /\ doc_'.st # doc_.st
     /\ doc_' # NewDoc(doc_.file)) => modified_'

\* the write mode follows the dirty flag, a save leaves the flag as it is,
\* and a document whose flag is clear is the document as parsed
DirtyDrivesSave ==
    /\ doc_ # NoDoc =>
           \A io \in SaveOutcomes :
               /\ saveToMemory(Impl, tmpFile, io).mode
                      = IF modified_ THEN "writeForceRewrite" ELSE "writeStandard"
               /\ saveToMemory(Impl, tmpFile, io).st.modified = modified_
    /\ (doc_ # NoDoc /\ ~modified_) => doc_ = NewDoc(doc_.file)

\* C14: save uses the forced full rewrite exactly when the dirty flag is
\* set and writeStandard otherwise; a successful field-value mutation sets the
\* flag, only a load that succeeds clears it (a save does not), and while the
\* flag is clear the document is as it was loaded
C14_SaveMode ==
    /\ []DirtyDrivesSave
    /\ [][MutationMarksDirty /\ ClearedOnlyByLoad]_vars

\* document "B" with its check box switched on, after a save that failed
C14_Witness ==
    /\ doc_ # NoDoc
    /\ doc_.file = "B"
    /\ doc_.st[1].appearanceState = "On"
    /\ modified_
    /\ lastError_ = Error("Failed to save PDF: error code")

\* r is the result of save on session S: with a document loaded it fails
\* only when the file layer does, and the document, the dirty flag, the cache
\* flag and the cached records are those of S
SaveLeavesSession(S, r, io) ==
    /\ r.ret = (io.result = 0 /\ io.readable)
    /\ r.st.doc = S.doc
    /\ r.st.modified = S.modified
    /\ r.st.fieldsCached = S.fieldsCached
    /\ r.st.cachedFields = S.cachedFields

\* C15: with a document loaded, dirty or not, save is permitted and leaves
\* the document, the dirty flag, the cache flag and the cached records as
\* they were
C15_SaveChangesNothing ==
    doc_ # NoDoc =>
        \A io \in SaveOutcomes : SaveLeavesSession(Impl, saveToMemory(Impl, tmpFile, io), io)

\* document "A", listed and not dirty, after a save whose result could not
\* be read back
C15_Witness ==
    /\ doc_ # NoDoc
    /\ doc_.file = "A"
    /\ ~modified_
    /\ fieldsCached_
    /\ Len(cachedFields_) = 2
    /\ lastError_ = Error("Failed to read saved PDF")


\* the field nodes of the loaded document
NumNodes == Len(doc_.st)

\* the traversal never holds more frames than the document has nodes (and
\* one for the loop over the roots, one for a null child), never records a
\* node twice, and what it has produced when the cache is marked valid is
\* what cacheFormFields computes for the session it started from
BoundedWalk ==
    /\ Len(callStack) <= NumNodes + 2
    /\ Len(cachedFields_) <= NumNodes
    /\ \A i, j \in 1..Len(cachedFields_) :
           cachedFields_[i].node = cachedFields_[j].node => i = j
    /\ fieldsCached_ =>
           /\ callStack = <<>>
           /\ Impl = cacheFormFields([Impl EXCEPT !.fieldsCached = FALSE, !.cachedFields = <<>>,
                                                  !.fieldMap = EmptyMap])

LoadErrors == {Error("Failed to load PDF: error code"), Error("Failed to open file")}
SetErrors ==
    {Error("Field not found"), Error("Field is not a text field"),
     Error("Field is not a choice field"), Error("Value not in choice options"),
     Error("Field is not a button field"), Error("Unsupported field type for setValue")}
FlattenErrors == {Error("No document loaded"), Error("Document has no form")}
SaveErrors ==
    {Error("No document loaded"), Error("Failed to save PDF: error code"),
     Error("Failed to read saved PDF")}
RenderErrors == {Error("No document loaded"), Error("Failed to render page")}

\* r is the result of an operation: if it signals failure, the last-error
\* slot holds one of the operation's own messages
Describes(r, msgs) == ~r.ret => r.st.lastError \in msgs

\* the operations other than renderPage
FailuresDescribed ==
    /\ \A l \in Loads : Describes(loadFromMemory(Impl, l[1], l[2]), LoadErrors)
    /\ \A path \in Paths : Describes(loadFromFile(Impl, path, ""), LoadErrors)
    /\ \A name \in Ids, value \in Values :
           Describes(setFieldValue(Impl, name, value, NoUB), SetErrors)
    /\ \A name \in Ids, checked \in BOOLEAN :
           Describes(setCheckboxValue(Impl, name, checked, NoUB), SetErrors)
    /\ \A values \in Batches : Describes(setFieldValues(Impl, values, NoUB), SetErrors)
    /\ Describes(flattenForm(Impl), FlattenErrors)
    /\ \A io \in SaveOutcomes : Describes(saveToMemory(Impl, tmpFile, io), SaveErrors)

\* C17: every public operation that signals failure (load, setFieldValue,
\* setCheckboxValue, setFieldValues, flattenForm, save, renderPage) writes a
\* description of that failure to the last-error slot during the call, so
\* the slot read right after a failure never holds an earlier message
C17_FailureSetsLastError ==
    /\ FailuresDescribed
    /\ \A pageIndex \in PageIndexes, dpi \in Dpis, io \in RenderOutcomes :
           Describes(renderPageToPng(Impl, pageIndex, dpi, io), RenderErrors)

C19_Original == doc_ # NoDoc => flattenForm(Impl).st.modified

\* r is the result of flattenForm on the loaded session S
FlattenMarksDirty(S, r) ==
    IF getForm(S)
    THEN r.ret /\ r.st.modified
    ELSE /\ ~r.ret
         /\ r.st.lastError = Error("Document has no form")
         /\ r.st.modified = S.modified

\* C19 (amended): flattenForm in a Loaded state on a document that has a
\* form succeeds and sets the dirty flag whether or not it was already set;
\* on a document without a form it fails with "Document has no form" and
\* leaves the dirty flag as it was
C19_FlattenMarksDirty == doc_ # NoDoc => FlattenMarksDirty(Impl, flattenForm(Impl))

\* document "A" is dirty although no field of it was ever written
C19_Witness ==
    /\ doc_ # NoDoc
    /\ doc_ = NewDoc("A")
    /\ modified_
    /\ lastError_ = NoError

\* r is the result of renderPage: an empty result, and displayPage was not
\* called
Refused(r) == ~r.ret /\ ~r.delegated

\* C20: renderPage(i, dpi) returns an empty result for every i < 0, every
\* i >= pageCount() and whenever no document is loaded, and never hands
\* such an index to the rasterizer
C20_RenderRangeChecked ==
    \A pageIndex \in PageIndexes, dpi \in Dpis, io \in RenderOutcomes :
        (doc_ = NoDoc \/ pageIndex < 0 \/ pageIndex >= getPageCount(Impl))
            => Refused(renderPageToPng(Impl, pageIndex, dpi, io))

\* the one-page document "B" after the rasterizer gave no bitmap for its
\* page: indices 1 and 2 are past its last page
C20_Witness ==
    /\ doc_ # NoDoc
    /\ doc_.file = "B"
    /\ getPageCount(Impl) = 1
    /\ lastError_ = Error("Failed to render page")
    /\ ~modified_

\* the records list the read-only flag of the node they were made from
ReadOnlyCopied(D, fields) ==
    \A i \in 1..Len(fields) : fields[i].readOnly = Node(D, fields[i].node).readOnly

\* the records list the required flag of the node they were made from
RequiredCopied(D, fields) ==
    \A i \in 1..Len(fields) : fields[i].required = Node(D, fields[i].node).required

\* C21: for every emitted record, readOnly equals the node's read-only flag
\* and required equals the node's required flag
C21_FlagsFromNode ==
    doc_ # NoDoc =>
        /\ ReadOnlyCopied(doc_, getFormFields(Impl).cachedFields)
        /\ RequiredCopied(doc_, getFormFields(Impl).cachedFields)

\* the partial name of a node is absent, zero-length, or converts to the
\* same string as its fully qualified name
PartialNameAdds(node) ==
    /\ node.partialName # nullptr
    /\ gooToStd(node.partialName) # <<>>
    /\ gooToStd(node.partialName) # gooToStd(node.fullName)

\* a record made from a node whose partial name adds nothing carries its
\* fullName as name, and no record has an empty name beside a fullName
NameAliased(D, fields) ==
    \A i \in 1..Len(fields) :
        /\ ~PartialNameAdds(Node(D, fields[i].node)) => fields[i].name = fields[i].fullName
        /\ fields[i].name = <<>> => fields[i].fullName = <<>>

\* C22: for every emitted record, if the node's partial name is absent,
\* zero-length or identical to its full name, the record's name equals its
\* fullName; no record carries an empty name while its fullName is non-empty
C22_NameAliased ==
    doc_ # NoDoc => NameAliased(doc_, getFormFields(Impl).cachedFields)

\* the non-empty name and fullName values of the records
RecordKeys(fields) ==
    ({fields[i].name : i \in 1..Len(fields)} \cup {fields[i].fullName : i \in 1..Len(fields)})
        \ {<<>>}

\* C23: whenever the cache is marked valid, the keys of the index are the
\* non-empty name and fullName values of the cached records and every entry
\* of the index points to a node of the document that is loaded now
C23_CacheIndexConsistent ==
    fieldsCached_ =>
        /\ DOMAIN fieldMap_ = RecordKeys(cachedFields_)
        /\ \A k \in DOMAIN fieldMap_ : Live(doc_, fieldMap_[k])

\* g is what field(id) returned, r what a setter called with id did: both
\* found nothing, or the setter acted on the node of the record returned
SamePath(g, r) ==
    IF g.idx = 0 THEN r.field = NullField /\ ~r.ret
    ELSE r.field = [node |-> g.st.cachedFields[g.idx].node, live |-> TRUE]

\* C24: for every identifier the query path and the mutation path resolve
\* it to the same field: setFieldValue and setCheckboxValue act on the node
\* of the record field(id) returns, and report the field as not found
\* exactly when field(id) is absent
C24_QueryMutationAgree ==
    doc_ # NoDoc =>
        \A name \in Ids : \A ub \in UBFor(Impl, name) :
            /\ \A value \in Values :
                   SamePath(getFieldByName(Impl, name), setFieldValue(Impl, name, value, ub))
            /\ \A checked \in BOOLEAN :
                   SamePath(getFieldByName(Impl, name), setCheckboxValue(Impl, name, checked, ub))

\* the values the setters are probed with: the values of the actions, a
\* string that is no label of any choice field, and the empty string
ProbeValues == Values \cup {S_a, S_empty}

\* r is the result of a setter on session S1: if it signals failure, the
\* dirty flag and the state of every field node are those of S1
FailureChangesNothing(S1, r) ==
    ~r.ret => (r.st.doc = S1.doc /\ r.st.modified = S1.modified)

\* S1 is the session once the cache is filled, which is where setFieldValue
\* and setCheckboxValue go on from
FailuresChangeNothing(S1) ==
    \A name \in Ids : \A ub \in UBAt(S1.doc, MapFind(S1.fieldMap, name)) :
        /\ \A value \in ProbeValues :
               FailureChangesNothing(S1, setFieldValue_found(S1, name, value, ub))
        /\ \A checked \in BOOLEAN :
               FailureChangesNothing(S1, setButtonFieldValue_found(S1, name, checked, ub))

\* C25: a setFieldValue or setCheckboxValue call that returns failure
\* (field not found, kind not supported, choice value not among the options)
\* leaves the dirty flag and every field's value, selection and checked state
\* unchanged
C25_FailureChangesNothing ==
    /\ cacheFormFields(Impl).doc = doc_
    /\ cacheFormFields(Impl).modified = modified_
    /\ FailuresChangeNothing(cacheFormFields(Impl))

\* document "B" untouched after setCheckboxValue was refused on a field
\* that is no button
C25_Witness ==
    /\ doc_ = NewDoc("B")
    /\ ~modified_
    /\ fieldsCached_
    /\ lastError_ = Error("Field is not a button field")

\* the 0-based indices of the options of node whose label is v
Matching(node, v) ==
    {i \in 0..(Len(node.choices) - 1) :
        node.choices[i + 1] # nullptr /\ gooToStd(node.choices[i + 1]) = v}

\* r is the result of setFieldValue(v) on the choice field at node n of
\* session S1
SelectsLowest(S1, n, v, r) ==
    IF Matching(Node(S1.doc, n), v) = {}
    THEN /\ ~r.ret
         /\ r.st.lastError = Error("Value not in choice options")
    ELSE /\ r.ret
         /\ \E i \in Matching(Node(S1.doc, n), v) :
                /\ \A j \in Matching(Node(S1.doc, n), v) : i <= j
                /\ r.st.doc.st[n].selected = {i}

\* S1 is the session once the cache is filled; every name that resolves to
\* a choice field of the loaded document is probed with every value
ChoiceByLabel(S1) ==
    \A name \in Ids :
        (/\ Live(S1.doc, MapFind(S1.fieldMap, name))
         /\ Node(S1.doc, MapFind(S1.fieldMap, name).node).type = "formChoice") =>
            \A v \in ProbeValues :
                SelectsLowest(S1, MapFind(S1.fieldMap, name).node, v,
                              setFieldValue_found(S1, name, v, NoUB))

\* C26: setFieldValue(f, v) on a Choice field succeeds if and only if v is
\* the label of at least one option; on success the selected index is the
\* lowest index whose label is v, otherwise the call fails as value not in
\* domain
C26_ChoiceByLabel == ChoiceByLabel(cacheFormFields(Impl))

\* document "B" after "0" was chosen on its choice field, whose first and
\* last options both carry that label
C26_Witness ==
    /\ doc_ # NoDoc
    /\ doc_.file = "B"
    /\ doc_.st[7].selected = {0}
    /\ modified_
    /\ ~fieldsCached_
    /\ lastError_ = NoError

\* r is the result of a setter on session S1: success, and the session is
\* S1 (no field state, no flag and no error message changed)
SilentNoOp(S1, r) == r.ret /\ r.st = S1

\* S1 is the session once the cache is filled; every name that resolves to
\* a push-button of the loaded document is probed
PushButtonNoOp(S1) ==
    \A name \in Ids :
        (/\ Live(S1.doc, MapFind(S1.fieldMap, name))
         /\ Node(S1.doc, MapFind(S1.fieldMap, name).node).type = "formButton"
         /\ Node(S1.doc, MapFind(S1.fieldMap, name).node).btnType = "formButtonPush") =>
            /\ \A v \in ProbeValues : SilentNoOp(S1, setFieldValue_found(S1, name, v, NoUB))
            /\ \A b \in BOOLEAN : SilentNoOp(S1, setButtonFieldValue_found(S1, name, b, NoUB))

\* C27: setCheckboxValue(id, b), and setFieldValue(id, v) for any v, on a
\* button field of the push-button subtype returns success and changes no
\* field state in the document
C27_PushButtonNoOp ==
    /\ cacheFormFields(Impl).doc = doc_
    /\ PushButtonNoOp(cacheFormFields(Impl))

\* document "B", listed and untouched: a call on its push-button "p" leaves
\* it so
C27_Witness ==
    /\ doc_ = NewDoc("B")
    /\ ~modified_
    /\ fieldsCached_
    /\ Len(cachedFields_) = 5
    /\ cachedFields_[3].fullName = S_p
    /\ lastError_ = NoError

\* the place of node n in the field tree of D: the node whose child it is
\* (0 for a root), and its path, the positions to take from the root list
\* down to it
TreeParent(D, n) ==
    IF \E m \in 1..Len(Parsed(D.file).nodes) :
           \E i \in 1..Len(Node(D, m).children) : Node(D, m).children[i] = n
    THEN CHOOSE m \in 1..Len(Parsed(D.file).nodes) :
             \E i \in 1..Len(Node(D, m).children) : Node(D, m).children[i] = n
    ELSE 0

PosIn(seq, n) == CHOOSE i \in 1..Len(seq) : seq[i] = n

RECURSIVE PathOf(_, _)
PathOf(D, n) ==
    IF TreeParent(D, n) = 0 THEN <<PosIn(Parsed(D.file).roots, n)>>
    ELSE Append(PathOf(D, TreeParent(D, n)),
                PosIn(Node(D, TreeParent(D, n)).children, n))

\* depth-first pre-order on paths: p comes before q when p is a proper
\* prefix of q (an ancestor), or p turns to an earlier root or child where
\* the two part
Precedes(p, q) ==
    \E k \in 1..Len(q) :
        /\ \A j \in 1..(k - 1) : j <= Len(p) /\ p[j] = q[j]
        /\ k > Len(p) \/ p[k] < q[k]

\* the records are in depth-first pre-order of the nodes they were made from
PreOrdered(D, fields) ==
    \A i, j \in 1..Len(fields) :
        i < j => Precedes(PathOf(D, fields[i].node), PathOf(D, fields[j].node))

\* the nodes with one or more widgets
Terminals(D) ==
    {n \in 1..Len(Parsed(D.file).nodes) : Len(Node(D, n).widgets) > 0}

\* C28: the flattened sequence is in depth-first pre-order: roots in
\* root-list order, a terminal node before all its descendants, the children
\* of every node in child order whatever its kind and whether or not it has
\* widgets, one root's subtree before the next root's; and once the cache is
\* valid every terminal node has its record
C28_PreOrder ==
    /\ PreOrdered(doc_, cachedFields_)
    /\ fieldsCached_ =>
           {cachedFields_[i].node : i \in 1..Len(cachedFields_)} = Terminals(doc_)

\* document "P" flattened: the root "a", then "a.b.k" below its first
\* child, then its second child "a.k", then the second root "b"
C28_Witness ==
    /\ doc_ = NewDoc("P")
    /\ fieldsCached_
    /\ Len(cachedFields_) = 4
    /\ cachedFields_[1].fullName = S_a
    /\ cachedFields_[2].fullName = S_abk
    /\ cachedFields_[3].fullName = S_ak
    /\ cachedFields_[4].fullName = S_b

=============================================================================
